---- MODULE Spec2Model ----
(***************************************************************************)
(* DradisMD: export of a local tree of markup files to a remote Dradis     *)
(* project (src/dradismd.py).  Strings are sequences of characters, a      *)
(* document is a sequence of lines, the remote project is the lists the    *)
(* Dradis API returns.                                                     *)
(***************************************************************************)
EXTENDS Integers, Sequences, FiniteSets, TLC

VARIABLES
    rIssues,        \* remote: issues of the project, [id, title]
    rBlocks,        \* remote: content blocks of the project, [id, title]
    rNodes,         \* remote: nodes of the project, [id, label]
    rEvidence,      \* remote: evidence records, [id, node, issue]
    rAttach,        \* remote: attachments, [node, filename]
    nextId,         \* remote: the next id the platform assigns
    issue_list,     \* DradisMD.issue_list (session cache)
    dradis_nodes,   \* DradisMD.dradis_nodes (session cache)
    cbFiles,        \* local: files of "Content Blocks/", in iterdir order
    issueFiles,     \* local: files of "Issues/", in iterdir order
    evFiles,        \* local: files of "Nodes/<label>/Evidences/<issue>/"
    disk,           \* local: attachment files on disk, [d, v]
    props,          \* local: document_properties.ini, [file, keys]
    queue,          \* the export calls update_project still has to make
    pc,             \* "idle", "running", "done", "crashed"
    calls,          \* the API calls of this session, in order
    cur,            \* the export call made last and where its API calls start
    faults,         \* remote failures so far in this session
    sessions,       \* invocations of the tool so far
    haIn,           \* handle_attachments called on its own: arguments
    haOut,          \* handle_attachments called on its own: result
    fnIn,           \* a function called on its own: its name and argument
    fnOut,          \* a function called on its own: what it returned
    format,         \* import: the format asked for
    written,        \* import: the files of the project folder
    unconvertible   \* import: the ids of the entities whose content pandoc rejects

vars == <<rIssues, rBlocks, rNodes, rEvidence, rAttach, nextId, issue_list,
          dradis_nodes, cbFiles, issueFiles, evFiles, disk, props, queue, pc,
          calls, cur, faults, sessions, haIn, haOut, fnIn, fnOut, format, written,
          unconvertible>>

-----------------------------------------------------------------------------
(* Bounds of the model *)

MaxFiles == 3       \* files in the local tree
MaxFaults == 1      \* remote write failures per session
MaxRefs == 2        \* attachment references in one document (SpecAttach)
MaxSessions == 2    \* invocations on the same tree (SpecSessions)
MaxSessionFiles == 1  \* files in the local tree of SpecSessions

-----------------------------------------------------------------------------
(* Strings *)

None == [none |-> TRUE]

Min(S) == CHOOSE x \in S : \A y \in S : x <= y

Last(seq) == seq[Len(seq)]

Digits == <<"0", "1", "2", "3", "4", "5", "6", "7", "8", "9">>

\* f"{n}" for an int
ToStr(n) ==
    IF n < 10 THEN <<Digits[n + 1]>>
    ELSE <<Digits[(n \div 10) + 1], Digits[(n % 10) + 1]>>

\* f"{None}"
NoneStr == <<"N", "o", "n", "e">>

\* "sz" is the letter sharp s: str.lower() keeps it, str.upper() writes it "SS"
lower_char(ch) ==
    CASE ch = "A" -> "a" [] ch = "B" -> "b" [] ch = "N" -> "n"
      [] ch = "U" -> "u" [] ch = "S" -> "s" [] OTHER -> ch

RECURSIVE lower(_)
lower(s) == IF s = <<>> THEN <<>> ELSE <<lower_char(Head(s))>> \o lower(Tail(s))

\* str.upper() of one character
upper_char(ch) ==
    CASE ch = "a" -> <<"A">> [] ch = "b" -> <<"B">> [] ch = "n" -> <<"N">>
      [] ch = "u" -> <<"U">> [] ch = "s" -> <<"S">> [] ch = "sz" -> <<"S", "S">>
      [] OTHER -> <<ch>>

RECURSIVE upper(_)
upper(s) == IF s = <<>> THEN <<>> ELSE upper_char(Head(s)) \o upper(Tail(s))

IllegalChars == {"<", ">", ":", "]", "\"", "/", "\\", "|", "?", "*", "."}

\* the sequence without the elements at the indexes of drop
Without(seq, drop) ==
    LET F[i \in 0..Len(seq)] ==
            IF i = 0 THEN <<>>
            ELSE IF i \in drop THEN F[i - 1] ELSE Append(F[i - 1], seq[i])
    IN  F[Len(seq)]

\* filename.replace(char, "", 1) for each char: only the first occurrence goes
clean_filename_once(filename) ==
    Without(filename, {i \in 1..Len(filename) :
                          /\ filename[i] \in IllegalChars
                          /\ \A j \in 1..(i - 1) : filename[j] # filename[i]})

clean_filename(filename) ==
    SelectSeq(filename, LAMBDA ch : ch \notin IllegalChars)

\* get_item_from_dict_list comparing the field as it is written
get_item_from_dict_list_exact(dict_list, key_to_check, matching_string) ==
    LET hits == {i \in 1..Len(dict_list) :
                    dict_list[i][key_to_check] = matching_string}
    IN  IF hits = {} THEN None ELSE dict_list[Min(hits)]

get_item_from_dict_list(dict_list, key_to_check, matching_string) ==
    LET hits == {i \in 1..Len(dict_list) :
                    lower(clean_filename(dict_list[i][key_to_check]))
                        = lower(clean_filename(matching_string))}
    IN  IF hits = {} THEN None ELSE dict_list[Min(hits)]

-----------------------------------------------------------------------------
(* Documents: a sequence of lines, each ended by a line break *)

Marker(f) == [k |-> "marker", v |-> <<f>>, d |-> <<>>, c |-> <<>>]
Blank == [k |-> "blank", v |-> <<>>, d |-> <<>>, c |-> <<>>]
Text(s) == [k |-> "text", v |-> s, d |-> <<>>, c |-> <<>>]
\* !<d>/<v><c>!  : a textile image, d the folder, v the file name, c the caption
Att(d, v, c) == [k |-> "att", v |-> v, d |-> d, c |-> c]

\* the characters of a line
LineText(l) ==
    CASE l.k = "marker" -> <<"#[">> \o l.v \o <<"]#">>
      [] l.k = "blank" -> <<>>
      [] l.k = "text" -> l.v
      [] l.k = "att" -> <<"!">> \o l.d \o l.v \o l.c \o <<"!">>

\* the first non-empty line after line i ([\r\n]+ then [^\r\n]+), 0 when none
Follower(content, i) ==
    LET js == {j \in (i + 1)..Len(content) : content[j].k # "blank"}
    IN  IF js = {} THEN 0 ELSE Min(js)

\* re.search(f"#\[<field>]#+[\r\n]+([^\r\n]+)", content)
re_search(field, content) ==
    LET is == {i \in 1..Len(content) :
                  content[i] = Marker(field) /\ Follower(content, i) # 0}
    IN  IF is = {} THEN None
        ELSE [start |-> Min(is), end |-> Follower(content, Min(is)),
              group1 |-> LineText(content[Follower(content, Min(is))])]

\* re.sub(f"#\[<field>]#+[\r\n]+([^\r\n]+)", "", content): every match goes,
\* the line break that ended the value line stays
RECURSIVE re_sub_empty(_, _)
re_sub_empty(field, content) ==
    LET m == re_search(field, content)
    IN  IF m = None THEN content
        ELSE SubSeq(content, 1, m.start - 1) \o <<Blank>>
             \o re_sub_empty(field, SubSeq(content, m.end + 1, Len(content)))

Return(v) == [exc |-> FALSE, val |-> v]
Raise == [exc |-> TRUE, val |-> <<>>]

get_title(content) ==
    LET match == re_search("Title", content)
    IN  IF match = None THEN Raise          \* match.group(1) on None
        ELSE IF Head(match.group1) = "#[" THEN Return(<<>>)
        ELSE Return(match.group1)

-----------------------------------------------------------------------------
(* The remote platform, as the Dradis API wrapper shows it *)

project_id == <<"1">>

UploadedFiles == <<"U", "p", "l", "o", "a", "d", "e", "d", " ", "f", "i", "l", "e", "s">>

\* one request to the remote: res is "ok", "raise" (the wrapper raises) or
\* "sentinel" (the response carries an error message and no entity)
ApiCall(op, node, id, files, res, ret) ==
    [op |-> op, node |-> node, id |-> id, files |-> files, res |-> res, ret |-> ret,
     content |-> <<>>]

\* the request with the content it carries
Sent(call, content) == [call EXCEPT !.content = content]

\* the ways a write the remote would accept can end, after f failures
Outcomes(f) == IF f < MaxFaults THEN {"ok", "raise", "sentinel"} ELSE {"ok"}

\* the ways the remote reports a write it rejects (unknown id)
Rejections == {"raise", "sentinel"}

Faulted(f, o) == IF o = "ok" THEN f ELSE f + 1

\* api.get_all_attachments(project_id, node_id): the file names on the node
get_all_attachments(node_id) == {a.filename : a \in {b \in rAttach : b.node = node_id}}

\* whether the remote holds this evidence id under this node
EvidenceKnown(node_id, evidence_id) ==
    \E e \in rEvidence : ToStr(e.id) = evidence_id /\ e.node = node_id

-----------------------------------------------------------------------------
(* handle_attachments *)

\* str.replace("%20", " ")
RECURSIVE Decode(_)
Decode(s) ==
    IF s = <<>> THEN <<>>
    ELSE <<IF Head(s) = "%20" THEN " " ELSE Head(s)>> \o Decode(Tail(s))

\* f"/pro/projects/{project_id}/nodes/{node_id}/attachments" and the "/" after it
DradisDir(node_id) ==
    <<"/pro/projects/">> \o project_id \o <<"/nodes/">> \o node_id \o <<"/attachments/">>

\* r.finditer(content): the attachment references of the document, in order
Attachments(content) == SelectSeq(content, LAMBDA l : l.k = "att")

\* re.sub(re.escape(match), replacement, content): every occurrence is replaced
RECURSIVE ReSubRef(_, _, _)
ReSubRef(content, match, replacement) ==
    IF content = <<>> THEN <<>>
    ELSE <<IF Head(content) = match THEN replacement ELSE Head(content)>>
         \o ReSubRef(Tail(content), match, replacement)

\* the loop over the references leaving at the first missing file
RECURSIVE AttachmentLoop_break(_, _, _, _, _)
AttachmentLoop_break(attachments, existing, onDisk, node_id, acc) ==
    IF attachments = <<>> THEN acc
    ELSE
      LET attachment == Head(attachments)
          present == Decode(attachment.v) \in existing
          full == [d |-> attachment.d, v |-> Decode(attachment.v)]
          missing == ~present /\ full \notin onDisk
          rewritten == ReSubRef(acc.content, attachment,
                                Att(DradisDir(node_id), attachment.v, attachment.c))
      IN  IF missing
          THEN acc
          ELSE AttachmentLoop_break(Tail(attachments), existing, onDisk, node_id,
                 [content |-> rewritten,
                  files |-> IF present THEN acc.files ELSE Append(acc.files, full)])

\* the loop over the references: acc is [content, files]
RECURSIVE AttachmentLoop(_, _, _, _, _)
AttachmentLoop(attachments, existing, onDisk, node_id, acc) ==
    IF attachments = <<>> THEN acc
    ELSE
      LET attachment == Head(attachments)
          present == Decode(attachment.v) \in existing
          full == [d |-> attachment.d, v |-> Decode(attachment.v)]
          missing == ~present /\ full \notin onDisk
          rewritten == ReSubRef(acc.content, attachment,
                                Att(DradisDir(node_id), attachment.v, attachment.c))
      IN  IF missing
          THEN AttachmentLoop(Tail(attachments), existing, onDisk, node_id, acc)
          ELSE AttachmentLoop(Tail(attachments), existing, onDisk, node_id,
                 [content |-> rewritten,
                  files |-> IF present THEN acc.files ELSE Append(acc.files, full)])

\* handle_attachments(project_id, node_id, content, file_path): the content
\* returned, the files handed to create_attachment and the API calls made
handle_attachments(node_id, content, existing, onDisk) ==
    LET out == AttachmentLoop(Attachments(content), existing, onDisk, node_id,
                              [content |-> content, files |-> <<>>])
        listing == ApiCall("get_all_attachments", node_id, <<>>, <<>>, "ok", 0)
        upload == ApiCall("create_attachment", node_id, <<>>, out.files, "ok", 0)
    IN  [content |-> out.content,
         files |-> out.files,
         calls |-> IF out.files = <<>> THEN <<listing>> ELSE <<listing, upload>>]

\* the remote attachments after the calls of handle_attachments
Uploaded(node_id, files) ==
    rAttach \cup {[node |-> node_id, filename |-> files[i].v] : i \in 1..Len(files)}

-----------------------------------------------------------------------------
(* The local tree and the remote projects the model starts from *)

TA == <<"a">>
TA2 == <<"A", ":">>         \* matches TA once sanitized and lower-cased
TB == <<"b">>
N1 == <<"N", "1">>

NoTitleDoc == <<Text(<<"x">>)>>
EmptyTitleDoc == <<Marker("Title"), Marker("Other"), Text(<<"x">>)>>
TitledDoc(t) == <<Marker("Title"), Blank, Text(t)>>

\* the block new_evidence appends: "\n#[EvidenceID]#\n\n{id}\n"
EvidenceIdBlock(id) == <<Blank, Marker("EvidenceID"), Blank, Text(id)>>

ImgDir == <<"img/">>
PName == <<"p">>
\* a titled document with the image img/p
ImageDoc == TitledDoc(TB) \o <<Att(ImgDir, PName, <<>>)>>

CBDocs == {NoTitleDoc, TitledDoc(TA), TitledDoc(TA2), ImageDoc}
IssueDocs == {<<>>, NoTitleDoc, EmptyTitleDoc, TitledDoc(TA), TitledDoc(TA2)}
\* an evidence file without the field, with the field holding id 7, and with
\* the marker left in place after its value was deleted
EvDocs == {<<Text(<<"x">>)>>, <<Text(<<"x">>)>> \o EvidenceIdBlock(<<"7">>),
           <<Text(<<"x">>), Marker("EvidenceID")>>}

CBFile == {[lines |-> l] : l \in CBDocs}
IssueFile == {[lines |-> l] : l \in IssueDocs}
EvFile == {[label |-> N1, issue |-> TA, lines |-> l] : l \in EvDocs}

SeqsUpTo(S, n) == UNION {[1..k -> S] : k \in 0..n}

\* a project nothing was ever added to
FreshProject ==
    [issues |-> <<>>, blocks |-> <<>>, nodes |-> <<>>, evidence |-> {}, nextId |-> 1]
\* a project that holds issue "a", block "a", node N1 and one evidence record
PopulatedProject ==
    [issues |-> <<[id |-> 1, title |-> TA]>>,
     blocks |-> <<[id |-> 2, title |-> TA]>>,
     nodes |-> <<[id |-> 4, label |-> N1], [id |-> 6, label |-> UploadedFiles]>>,
     evidence |-> {[id |-> 7, node |-> <<"4">>, issue |-> 1]},
     nextId |-> 8]
\* a project that holds another issue only
OtherProject ==
    [issues |-> <<[id |-> 1, title |-> TB]>>, blocks |-> <<>>,
     nodes |-> <<[id |-> 3, label |-> UploadedFiles]>>, evidence |-> {}, nextId |-> 4]

Projects == {FreshProject, PopulatedProject, OtherProject}

NoStep == [op |-> "none", idx |-> 0, at |-> 0, lines |-> <<>>, seen |-> <<>>]

\* the keys of the [DOCUMENT_PROPERTIES] section
PropFiles == {[file |-> TRUE, keys |-> k] : k \in {<<>>, <<"k1">>, <<"k1", "k2">>}}
NoProps == [file |-> FALSE, keys |-> <<>>]

\* nothing is called on its own and nothing is imported
NoCall ==
    /\ fnIn = None
    /\ fnOut = None
    /\ format = "textile"
    /\ written = {}
    /\ unconvertible = {}

InitTree(n) ==
    /\ props \in {NoProps} \cup PropFiles
    /\ cbFiles \in SeqsUpTo(CBFile, IF ~props.file THEN n ELSE n - 1)
    /\ issueFiles \in SeqsUpTo(IssueFile, (IF ~props.file THEN n ELSE n - 1)
                                           - Len(cbFiles))
    /\ evFiles \in SeqsUpTo(EvFile, (IF ~props.file THEN n ELSE n - 1)
                                     - Len(cbFiles) - Len(issueFiles))
    /\ disk = {[d |-> ImgDir, v |-> PName]}

InitRemote ==
    \E p \in Projects :
        /\ rIssues = p.issues
        /\ rBlocks = p.blocks
        /\ rNodes = p.nodes
        /\ rEvidence = p.evidence
        /\ nextId = p.nextId
        /\ rAttach = {}

\* DradisMD.__init__ and the start of the process
InitSession ==
    /\ issue_list = <<>>
    /\ dradis_nodes = <<>>
    /\ queue = <<>>
    /\ pc = "idle"
    /\ calls = <<>>
    /\ cur = NoStep
    /\ faults = 0
    /\ sessions = 1

Init ==
    /\ InitTree(MaxFiles)
    /\ InitRemote
    /\ InitSession
    /\ haIn = None
    /\ haOut = None
    /\ NoCall

-----------------------------------------------------------------------------
(* update_project: the walk over the tree, one export call per step *)

remote == <<rIssues, rBlocks, rNodes, rEvidence, rAttach, nextId>>
tree == <<cbFiles, issueFiles, evFiles, disk, props>>
solo == <<haIn, haOut, fnIn, fnOut, format, written, unconvertible>>

Item(kind, idx, node) == [kind |-> kind, idx |-> idx, node |-> node]
\* the record of an export call: the file, the calls made before it, the lines
\* of the file and the remote list as they were when it started
Step(op, idx, lines, seen) ==
    [op |-> op, idx |-> idx, at |-> Len(calls), lines |-> lines, seen |-> seen]

\* the calls the last export call made
StepCalls == SubSeq(calls, cur.at + 1, Len(calls))

Indexes(files) == [i \in 1..Len(files) |-> i]

\* get_folders_in_folder(nodes_path): one folder per label, first file first
NodeFolders ==
    SelectSeq(Indexes(evFiles),
              LAMBDA i : \A j \in 1..(i - 1) : evFiles[j].label # evFiles[i].label)

\* the evidence files of a node folder: issue folder by issue folder
IssueFolders(label) ==
    SelectSeq(Indexes(evFiles),
              LAMBDA i : /\ evFiles[i].label = label
                         /\ \A j \in 1..(i - 1) :
                               evFiles[j].label = label => evFiles[j].issue # evFiles[i].issue)

RECURSIVE EvidenceItems(_, _, _)
EvidenceItems(label, folders, node_id) ==
    IF folders = <<>> THEN <<>>
    ELSE LET issue == evFiles[Head(folders)].issue
             files == SelectSeq(Indexes(evFiles),
                                LAMBDA i : evFiles[i].label = label /\ evFiles[i].issue = issue)
         IN  [n \in 1..Len(files) |-> Item("evidence", files[n], node_id)]
             \o EvidenceItems(label, Tail(folders), node_id)

\* the export calls of a directory export, in the order update_project makes them
DirectoryItems ==
    [i \in 1..Len(cbFiles) |-> Item("content_block", i, <<>>)]
    \o (IF ~props.file THEN <<>> ELSE <<Item("document_properties", 0, <<>>)>>)
    \o [i \in 1..Len(issueFiles) |-> Item("issue", i, <<>>)]
    \o [n \in 1..Len(NodeFolders) |-> Item("node", NodeFolders[n], <<>>)]

\* a path is the sequence of its names, the file name last
PropertiesIni == <<"document_properties.ini">>
ContentBlocksDir == <<"Content Blocks">>
IssuesDir == <<"Issues">>
NodesDir == <<"Nodes">>
EvidencesDir == <<"Evidences">>
FileName == <<"f">>

\* path.name, path.parent.name, path.parent.parent.name, ...: "" above the top
UpName(path, n) == IF Len(path) > n THEN path[Len(path) - n] ELSE <<>>

Run(exporter, local_issue_name) ==
    [exporter |-> exporter, local_issue_name |-> local_issue_name]

\* update_item with an if for every position instead of the elif chain
update_item_ifs(path) ==
    (IF UpName(path, 0) = PropertiesIni
     THEN <<Run("export_document_properties", <<>>)>> ELSE <<>>)
    \o (IF UpName(path, 1) = ContentBlocksDir
        THEN <<Run("export_content_block", <<>>)>> ELSE <<>>)
    \o (IF UpName(path, 1) = IssuesDir THEN <<Run("export_issue", <<>>)>> ELSE <<>>)
    \o (IF UpName(path, 2) = EvidencesDir
        THEN <<Run("export_evidence", UpName(path, 1))>> ELSE <<>>)

\* update_item(project_id, path): the exporters it runs, in order
update_item(path) ==
    IF UpName(path, 0) = PropertiesIni
    THEN <<Run("export_document_properties", <<>>)>>
    ELSE IF UpName(path, 1) = ContentBlocksDir
    THEN <<Run("export_content_block", <<>>)>>
    ELSE IF UpName(path, 1) = IssuesDir
    THEN <<Run("export_issue", <<>>)>>
    ELSE IF UpName(path, 2) = EvidencesDir
    THEN <<Run("export_evidence", UpName(path, 1))>>
    ELSE <<>>

\* where the file of an export call is in the tree
ItemPath(item) ==
    CASE item.kind = "document_properties" -> <<PropertiesIni>>
      [] item.kind = "content_block" -> <<ContentBlocksDir, FileName>>
      [] item.kind = "issue" -> <<IssuesDir, FileName>>
      [] item.kind = "item_evidence" ->
            <<NodesDir, evFiles[item.idx].label, EvidencesDir, evFiles[item.idx].issue,
              FileName>>

\* the exporter behind each kind of export call
ItemExporter(kind) ==
    CASE kind = "document_properties" -> "export_document_properties"
      [] kind = "content_block" -> "export_content_block"
      [] kind = "issue" -> "export_issue"
      [] kind = "item_evidence" -> "export_evidence"

\* the export call update_item makes for a file of the tree
SingleItems ==
    {item \in (IF props.file THEN {Item("document_properties", 0, <<>>)} ELSE {})
              \cup {Item("content_block", i, <<>>) : i \in 1..Len(cbFiles)}
              \cup {Item("issue", i, <<>>) : i \in 1..Len(issueFiles)}
              \cup {Item("item_evidence", i, <<>>) : i \in 1..Len(evFiles)} :
        \E n \in 1..Len(update_item(ItemPath(item))) :
            update_item(ItemPath(item))[n].exporter = ItemExporter(item.kind)}

\* api.get_project(project_id): the project, or a body whose message is
\* NO_RESULT when the remote has no such project for this user
get_project(found) ==
    ApiCall("get_project", <<>>, project_id, <<>>, IF found THEN "ok" ELSE "sentinel", 0)

\* update_project going on whatever get_project answered
update_project_unchecked ==
    /\ pc = "idle"
    /\ \E found \in BOOLEAN : calls' = Append(calls, get_project(found))
    /\ \/ queue' = DirectoryItems
       \/ \E item \in SingleItems : queue' = <<item>>
    /\ pc' = "running"
    /\ cur' = Step("update_project", 0, <<>>, <<>>)
    /\ UNCHANGED <<remote, tree, solo, issue_list, dradis_nodes, faults, sessions>>

update_project ==
    /\ pc = "idle"
    /\ \E found \in BOOLEAN :
          /\ calls' = Append(calls, get_project(found))
          /\ IF ~found
             THEN /\ pc' = "not_found"       \* log.error, nothing else
                  /\ queue' = <<>>
             ELSE /\ \/ queue' = DirectoryItems
                     \/ \E item \in SingleItems : queue' = <<item>>
                  /\ pc' = "running"
    /\ cur' = Step("update_project", 0, <<>>, <<>>)
    /\ UNCHANGED <<remote, tree, solo, issue_list, dradis_nodes, faults, sessions>>

\* the export call returns without having touched the remote or the tree
Skipped ==
    /\ pc' = "running"
    /\ UNCHANGED <<remote, tree, issue_list, dradis_nodes, calls, faults>>

\* an exception leaves the export call and, nothing catching it, update_project
Crashed(made) ==
    /\ pc' = "crashed"
    /\ calls' = calls \o made

\* get_node_id_from_file taking the id of "Uploaded files" itself
get_node_id_from_file_same(where, label) ==
    LET fetch == dradis_nodes = <<>>
        nodes == IF fetch THEN rNodes ELSE dradis_nodes
        made == IF fetch THEN <<ApiCall("get_all_nodes", <<>>, <<>>, <<>>, "ok", 0)>>
                ELSE <<>>
        node == IF where = "content_block"
                THEN get_item_from_dict_list(nodes, "label", UploadedFiles)
                ELSE get_item_from_dict_list(nodes, "label", label)
    IN  [exc |-> node = None,
         val |-> IF node = None THEN <<>> ELSE ToStr(node.id),
         nodes |-> nodes,
         calls |-> made]

\* get_node_id_from_file(project_id, file_path): where is "content_block" for a
\* file of "Content Blocks/" and "evidence" for one of "Evidences/<issue>/"
get_node_id_from_file(where, label) ==
    LET fetch == dradis_nodes = <<>>
        nodes == IF fetch THEN rNodes ELSE dradis_nodes
        made == IF fetch THEN <<ApiCall("get_all_nodes", <<>>, <<>>, <<>>, "ok", 0)>>
                ELSE <<>>
        node == IF where = "content_block"
                THEN get_item_from_dict_list(nodes, "label", UploadedFiles)
                ELSE get_item_from_dict_list(nodes, "label", label)
    IN  [exc |-> node = None,                 \* None['id']
         val |-> IF node = None THEN <<>>
                 ELSE IF where = "content_block" THEN ToStr(node.id - 1)
                 ELSE ToStr(node.id),
         nodes |-> nodes,
         calls |-> made]

\* the loop of export_document_properties leaving at the first update that raises
RECURSIVE DocpropUpdates_abort(_, _)
DocpropUpdates_abort(keys, outs) ==
    IF keys = <<>> THEN <<>>
    ELSE <<ApiCall("update_docprop", <<>>, <<Head(keys)>>, <<>>, Head(outs), 0)>>
         \o (IF Head(outs) = "raise" THEN <<>>
             ELSE DocpropUpdates_abort(Tail(keys), Tail(outs)))

\* the loop of export_document_properties: api.update_docprop(project_id, key,
\* value) for each key, an exception logged and the loop going on
RECURSIVE DocpropUpdates(_, _)
DocpropUpdates(keys, outs) ==
    IF keys = <<>> THEN <<>>
    ELSE <<ApiCall("update_docprop", <<>>, <<Head(keys)>>, <<>>, Head(outs), 0)>>
         \o DocpropUpdates(Tail(keys), Tail(outs))

export_document_properties ==
    /\ pc = "running" /\ queue # <<>> /\ Head(queue).kind = "document_properties"
    /\ queue' = Tail(queue)
    /\ cur' = Step("export_document_properties", 0, <<>>, <<>>)
    /\ \E outs \in [1..Len(props.keys) -> {"ok", "raise", "sentinel"}] :
          LET failed == Cardinality({i \in 1..Len(props.keys) : outs[i] # "ok"})
          IN  /\ faults + failed <= MaxFaults
              /\ faults' = faults + failed
              /\ calls' = calls \o DocpropUpdates(props.keys, outs)
    /\ pc' = "running"
    /\ UNCHANGED <<remote, tree, solo, issue_list, dradis_nodes, sessions>>

\* the title the remote shows for the entity whose content was replaced
Retitled(list, id, title) ==
    [i \in 1..Len(list) |-> IF list[i].id = id THEN [list[i] EXCEPT !.title = title]
                            ELSE list[i]]

export_content_block ==
    /\ pc = "running" /\ queue # <<>> /\ Head(queue).kind = "content_block"
    /\ queue' = Tail(queue)
    /\ cur' = Step("export_content_block", Head(queue).idx,
                   cbFiles[Head(queue).idx].lines, rBlocks)
    /\ UNCHANGED <<rIssues, rNodes, rEvidence, tree, solo, issue_list, sessions>>
    /\ LET content == cbFiles[Head(queue).idx].lines
           title == get_title(content)
           node == get_node_id_from_file("content_block", <<>>)
           ha == handle_attachments(node.val, content, get_all_attachments(node.val), disk)
           listed == ApiCall("get_all_contentblocks", <<>>, <<>>, <<>>, "ok", 0)
           title_found == get_item_from_dict_list(rBlocks, "title", title.val)
       IN  IF content = <<>> THEN Skipped /\ UNCHANGED <<rBlocks, rAttach, nextId>>
           ELSE IF title.exc
           THEN /\ Crashed(<<>>)
                /\ UNCHANGED <<rBlocks, rAttach, nextId, dradis_nodes, faults>>
           ELSE IF title.val = <<>> THEN Skipped /\ UNCHANGED <<rBlocks, rAttach, nextId>>
           ELSE IF node.exc
           THEN /\ Crashed(node.calls)
                /\ dradis_nodes' = node.nodes
                /\ UNCHANGED <<rBlocks, rAttach, nextId, faults>>
           ELSE
             /\ dradis_nodes' = node.nodes
             /\ rAttach' = Uploaded(node.val, ha.files)
             /\ \E o \in Outcomes(faults) :
                  /\ faults' = Faulted(faults, o)
                  /\ pc' = IF o = "raise" THEN "crashed" ELSE "running"
                  /\ IF title_found = None
                     THEN /\ calls' = calls \o node.calls \o ha.calls \o
                                <<listed, Sent(ApiCall("create_contentblock", <<>>, <<>>, <<>>,
                                                       o, IF o = "ok" THEN nextId ELSE 0),
                                               ha.content)>>
                          /\ rBlocks' = IF o = "ok"
                                        THEN Append(rBlocks, [id |-> nextId, title |-> title.val])
                                        ELSE rBlocks
                          /\ nextId' = IF o = "ok" THEN nextId + 1 ELSE nextId
                     ELSE /\ calls' = calls \o node.calls \o ha.calls \o
                                <<listed, Sent(ApiCall("update_contentblock", <<>>,
                                                       ToStr(title_found.id), <<>>, o, 0),
                                               ha.content)>>
                          /\ rBlocks' = IF o = "ok"
                                        THEN Retitled(rBlocks, title_found.id, title.val)
                                        ELSE rBlocks
                          /\ nextId' = nextId

export_issue ==
    /\ pc = "running" /\ queue # <<>> /\ Head(queue).kind = "issue"
    /\ queue' = Tail(queue)
    /\ cur' = Step("export_issue", Head(queue).idx,
                   issueFiles[Head(queue).idx].lines, rIssues)
    /\ UNCHANGED <<rBlocks, rNodes, rEvidence, rAttach, tree, solo, dradis_nodes, sessions>>
    /\ LET content == issueFiles[Head(queue).idx].lines
           title == get_title(content)
           fetch == issue_list = <<>>
           issues == IF fetch THEN rIssues ELSE issue_list
           made == IF fetch THEN <<ApiCall("get_all_issues", <<>>, <<>>, <<>>, "ok", 0)>>
                   ELSE <<>>
           issue_found == get_item_from_dict_list(issues, "title", title.val)
       IN  IF content = <<>> THEN Skipped /\ UNCHANGED <<rIssues, nextId>>
           ELSE IF title.exc
           THEN /\ Crashed(<<>>)
                /\ UNCHANGED <<rIssues, nextId, issue_list, faults>>
           ELSE IF title.val = <<>> THEN Skipped /\ UNCHANGED <<rIssues, nextId>>
           ELSE
             /\ issue_list' = issues
             /\ \E o \in Outcomes(faults) :
                  /\ faults' = Faulted(faults, o)
                  /\ pc' = IF o = "raise" THEN "crashed" ELSE "running"
                  /\ IF issue_found = None
                     THEN /\ calls' = calls \o made \o
                                <<ApiCall("create_issue", <<>>, <<>>, <<>>, o,
                                          IF o = "ok" THEN nextId ELSE 0)>>
                          /\ rIssues' = IF o = "ok"
                                        THEN Append(rIssues, [id |-> nextId, title |-> title.val])
                                        ELSE rIssues
                          /\ nextId' = IF o = "ok" THEN nextId + 1 ELSE nextId
                     ELSE /\ calls' = calls \o made \o
                                <<ApiCall("update_issue", <<>>, ToStr(issue_found.id),
                                          <<>>, o, 0)>>
                          /\ rIssues' = IF o = "ok"
                                        THEN Retitled(rIssues, issue_found.id, title.val)
                                        ELSE rIssues
                          /\ nextId' = nextId

-----------------------------------------------------------------------------
(* Evidence *)

ReplaceAt(files, i, lines) ==
    [n \in 1..Len(files) |-> IF n = i THEN [files[n] EXCEPT !.lines = lines] ELSE files[n]]

\* new_evidence(project_id, node_id, issue_id, content, evidence, erase_previous_id)
\* for the evidence file i
\* after the calls `made`, f remote failures so far
new_evidence(node_id, issue_id, i, erase_previous_id, made, f) ==
    \E o \in Outcomes(f) :
        LET created == ApiCall("create_evidence", node_id, <<>>, <<>>, o,
                               IF o = "ok" THEN nextId ELSE 0)
            evidence_id == IF o = "ok" THEN ToStr(nextId) ELSE NoneStr  \* result.get("id", None)
            evidence_content == IF erase_previous_id
                                THEN re_sub_empty("EvidenceID", evFiles[i].lines)
                                ELSE evFiles[i].lines
        IN  /\ calls' = calls \o made \o <<created>>
            /\ faults' = Faulted(f, o)
            /\ IF o = "raise"
               THEN /\ pc' = "crashed"
                    /\ UNCHANGED <<rEvidence, nextId, evFiles>>
               ELSE /\ pc' = "running"
                    /\ rEvidence' = IF o = "ok"
                                    THEN rEvidence \cup {[id |-> nextId, node |-> node_id,
                                                         issue |-> issue_id]}
                                    ELSE rEvidence
                    /\ nextId' = IF o = "ok" THEN nextId + 1 ELSE nextId
                    /\ evFiles' = ReplaceAt(evFiles, i,
                                     evidence_content \o EvidenceIdBlock(evidence_id))

\* export_evidence handling the attachments before it looks the issue up
export_evidence_attachments_first(node_id, i, before) ==
    LET content == evFiles[i].lines
        fetch == issue_list = <<>>
        issues == IF fetch THEN rIssues ELSE issue_list
        made == IF fetch
                THEN before \o <<ApiCall("get_all_issues", <<>>, <<>>, <<>>, "ok", 0)>>
                ELSE before
        issue_found == get_item_from_dict_list(issues, "title", evFiles[i].issue)
        ha == handle_attachments(node_id, content, get_all_attachments(node_id), disk)
        evidence_id_found == re_search("EvidenceID", ha.content)
        updated(o) == ApiCall("update_evidence", node_id, evidence_id_found.group1, <<>>, o, 0)
    IN  IF content = <<>>
        THEN /\ pc' = "running"
             /\ calls' = calls \o before
             /\ UNCHANGED <<rEvidence, rAttach, nextId, evFiles, issue_list, faults>>
        ELSE IF issue_found = None
        THEN /\ pc' = "running"
             /\ calls' = calls \o made \o ha.calls
             /\ issue_list' = issues
             /\ rAttach' = Uploaded(node_id, ha.files)
             /\ UNCHANGED <<rEvidence, nextId, evFiles, faults>>
        ELSE
          /\ issue_list' = issues
          /\ rAttach' = Uploaded(node_id, ha.files)
          /\ IF evidence_id_found = None
             THEN new_evidence(node_id, issue_found.id, i, FALSE, made \o ha.calls, faults)
             ELSE \E o \in IF EvidenceKnown(node_id, evidence_id_found.group1)
                           THEN Outcomes(faults) ELSE Rejections :
                    LET f == IF EvidenceKnown(node_id, evidence_id_found.group1)
                             THEN Faulted(faults, o) ELSE faults
                    IN  IF o = "raise"
                        THEN new_evidence(node_id, issue_found.id, i, TRUE,
                                          made \o ha.calls \o <<updated(o)>>, f)
                        ELSE /\ pc' = "running"
                             /\ calls' = calls \o made \o ha.calls \o <<updated(o)>>
                             /\ faults' = f
                             /\ UNCHANGED <<rEvidence, nextId, evFiles>>

\* export_evidence(project_id, node_id, local_issue_name, evidence_file), after
\* the calls `before` of the caller
export_evidence(node_id, i, before) ==
    LET content == evFiles[i].lines
        fetch == issue_list = <<>>
        issues == IF fetch THEN rIssues ELSE issue_list
        made == IF fetch
                THEN before \o <<ApiCall("get_all_issues", <<>>, <<>>, <<>>, "ok", 0)>>
                ELSE before
        issue_found == get_item_from_dict_list(issues, "title", evFiles[i].issue)
        ha == handle_attachments(node_id, content, get_all_attachments(node_id), disk)
        evidence_id_found == re_search("EvidenceID", ha.content)
        updated(o) == ApiCall("update_evidence", node_id, evidence_id_found.group1, <<>>, o, 0)
    IN  IF content = <<>>
        THEN /\ pc' = "running"
             /\ calls' = calls \o before
             /\ UNCHANGED <<rEvidence, rAttach, nextId, evFiles, issue_list, faults>>
        ELSE IF issue_found = None
        THEN /\ pc' = "running"
             /\ calls' = calls \o made
             /\ issue_list' = issues
             /\ UNCHANGED <<rEvidence, rAttach, nextId, evFiles, faults>>
        ELSE
          /\ issue_list' = issues
          /\ rAttach' = Uploaded(node_id, ha.files)
          /\ IF evidence_id_found = None
             THEN new_evidence(node_id, issue_found.id, i, FALSE, made \o ha.calls, faults)
             ELSE \E o \in IF EvidenceKnown(node_id, evidence_id_found.group1)
                           THEN Outcomes(faults) ELSE Rejections :
                    LET f == IF EvidenceKnown(node_id, evidence_id_found.group1)
                             THEN Faulted(faults, o) ELSE faults
                    IN  IF o = "raise"      \* except: fall back to a new evidence
                        THEN new_evidence(node_id, issue_found.id, i, TRUE,
                                          made \o ha.calls \o <<updated(o)>>, f)
                        ELSE /\ pc' = "running"
                             /\ calls' = calls \o made \o ha.calls \o <<updated(o)>>
                             /\ faults' = f
                             /\ UNCHANGED <<rEvidence, nextId, evFiles>>

\* export_node(project_id, node_folder) up to its loop over the evidence files
export_node ==
    /\ pc = "running" /\ queue # <<>> /\ Head(queue).kind = "node"
    /\ cur' = Step("export_node", Head(queue).idx, <<>>, rNodes)
    /\ UNCHANGED <<rIssues, rBlocks, rEvidence, rAttach, tree, solo, issue_list, sessions>>
    /\ LET label == evFiles[Head(queue).idx].label
           fetch == dradis_nodes = <<>>
           nodes == IF fetch THEN rNodes ELSE dradis_nodes
           made == IF fetch THEN <<ApiCall("get_all_nodes", <<>>, <<>>, <<>>, "ok", 0)>>
                   ELSE <<>>
           node_found == get_item_from_dict_list(nodes, "label", label)
       IN  /\ dradis_nodes' = nodes
           /\ IF node_found = None
              THEN \E o \in Outcomes(faults) :
                     /\ calls' = calls \o made \o
                           <<ApiCall("create_node", <<>>, <<>>, <<>>, o,
                                     IF o = "ok" THEN nextId ELSE 0)>>
                     /\ faults' = Faulted(faults, o)
                     /\ IF o = "ok"
                        THEN /\ rNodes' = Append(rNodes, [id |-> nextId, label |-> label])
                             /\ nextId' = nextId + 1
                             /\ pc' = "running"
                             /\ queue' = EvidenceItems(label, IssueFolders(label), ToStr(nextId))
                                         \o Tail(queue)
                        ELSE /\ pc' = "crashed"     \* raised, or result["id"] is missing
                             /\ queue' = Tail(queue)
                             /\ UNCHANGED <<rNodes, nextId>>
              ELSE /\ calls' = calls \o made
                   /\ pc' = "running"
                   /\ queue' = EvidenceItems(label, IssueFolders(label), ToStr(node_found.id))
                               \o Tail(queue)
                   /\ UNCHANGED <<rNodes, nextId, faults>>

\* export_node's call of export_evidence for one evidence file
export_node_evidence ==
    /\ pc = "running" /\ queue # <<>> /\ Head(queue).kind = "evidence"
    /\ queue' = Tail(queue)
    /\ cur' = Step("export_evidence", Head(queue).idx,
                   evFiles[Head(queue).idx].lines, rIssues)
    /\ UNCHANGED <<rIssues, rBlocks, rNodes, cbFiles, issueFiles, disk, props, solo,
                   dradis_nodes, sessions>>
    /\ export_evidence(Head(queue).node, Head(queue).idx, <<>>)

\* update_item's branch for a file of "Evidences/<issue>/"
update_item_evidence ==
    /\ pc = "running" /\ queue # <<>> /\ Head(queue).kind = "item_evidence"
    /\ queue' = Tail(queue)
    /\ cur' = Step("update_item_evidence", Head(queue).idx,
                   evFiles[Head(queue).idx].lines, rIssues)
    /\ UNCHANGED <<rIssues, rBlocks, rNodes, cbFiles, issueFiles, disk, props, solo, sessions>>
    /\ LET node == get_node_id_from_file("evidence", evFiles[Head(queue).idx].label)
       IN  /\ dradis_nodes' = node.nodes
           /\ IF node.exc
              THEN /\ Crashed(node.calls)
                   /\ UNCHANGED <<rEvidence, rAttach, nextId, evFiles, issue_list, faults>>
              ELSE export_evidence(node.val, Head(queue).idx, node.calls)

\* update_project returns
finish ==
    /\ pc = "running" /\ queue = <<>>
    /\ pc' = "done"
    /\ UNCHANGED <<remote, tree, solo, issue_list, dradis_nodes, queue, calls, cur,
                   faults, sessions>>

\* the tool is started again on the same tree: a new DradisMD object
new_session ==
    /\ pc \in {"done", "crashed"}
    /\ sessions < MaxSessions
    /\ sessions' = sessions + 1
    /\ issue_list' = <<>>
    /\ dradis_nodes' = <<>>
    /\ queue' = <<>>
    /\ pc' = "idle"
    /\ calls' = <<>>
    /\ cur' = NoStep
    /\ faults' = 0
    /\ UNCHANGED <<remote, tree, solo>>

Next ==
    \/ update_project
    \/ export_content_block
    \/ export_document_properties
    \/ export_issue
    \/ export_node
    \/ export_node_evidence
    \/ update_item_evidence
    \/ finish

Spec == Init /\ [][Next]_vars

NextSessions == Next \/ new_session

InitSessions ==
    /\ InitTree(MaxSessionFiles)
    /\ InitRemote
    /\ InitSession
    /\ haIn = None
    /\ haOut = None
    /\ NoCall

SpecSessions == InitSessions /\ [][NextSessions]_vars

-----------------------------------------------------------------------------
(* handle_attachments on its own: one call on a document, a remote listing and
   a disk drawn from small sets *)

AttachNode == <<"5">>
OldDir == <<"old/">>
QName == <<"q", "%20", "q">>
Caption == <<"(", "c", ")">>

RefLines ==
    {Att(d, v, c) : d \in {ImgDir, OldDir, DradisDir(AttachNode)},
                    v \in {PName, QName}, c \in {<<>>, Caption}}

DiskFiles == {[d |-> d, v |-> Decode(v)] : d \in {ImgDir, OldDir}, v \in {PName, QName}}

InitAttach ==
    /\ haIn \in [node_id : {AttachNode},
                 content : SeqsUpTo(RefLines, MaxRefs),
                 existing : SUBSET {Decode(PName), Decode(QName)},
                 disk : SUBSET DiskFiles]
    /\ haOut = None
    /\ NoCall
    /\ cbFiles = <<>> /\ issueFiles = <<>> /\ evFiles = <<>> /\ disk = {} /\ props = NoProps
    /\ rIssues = <<>> /\ rBlocks = <<>> /\ rNodes = <<>>
    /\ rEvidence = {} /\ rAttach = {} /\ nextId = 1
    /\ InitSession

handle_attachments_call ==
    /\ haOut = None
    /\ haOut' = handle_attachments(haIn.node_id, haIn.content, haIn.existing, haIn.disk)
    /\ UNCHANGED <<remote, tree, haIn, fnIn, fnOut, format, written, unconvertible,
                   issue_list,
                   dradis_nodes, queue, pc, calls, cur, faults, sessions>>

NextAttach == handle_attachments_call

SpecAttach == InitAttach /\ [][NextAttach]_vars

-----------------------------------------------------------------------------
(* import_project: the remote project written to a local folder *)

MaxRemote == 2      \* remote content blocks, remote issues, remote evidence records

TA3 == <<"a", ":">>         \* another title that is sanitized to "a"

\* a remote list with these titles, the ids counted from base
Listed(titles, base) ==
    [i \in 1..Len(titles) |-> [id |-> base + i, title |-> titles[i]]]

\* a file of the project folder: from is the remote entity it was written for
File(cat, dir, name, ext, from) ==
    [cat |-> cat, dir |-> dir, name |-> name, ext |-> ext, from |-> from]

SamePath(f, g) == f.cat = g.cat /\ f.dir = g.dir /\ f.name = g.name /\ f.ext = g.ext

\* file.write_text(...): the file at this path is created or replaced
Put(files, f) == {g \in files : ~SamePath(g, f)} \cup {f}

\* file_path.unlink()
Unlink(files, f) == {g \in files : ~SamePath(g, f)}

\* SUPPORTED_FORMAT[output_format]
Extension(output_format) == IF output_format = "textile" THEN ".textile" ELSE ".md"

\* convert_file(file_path, input_format, output_format, True) on the file f:
\* convert returns None when pandoc is missing or rejects the content, and
\* new_file.write_text(None) raises TypeError
convert_file(files, f) ==
    IF f.from \in unconvertible
    THEN [files |-> files, exc |-> TRUE]
    ELSE [files |-> Unlink(Put(files, [f EXCEPT !.ext = Extension(format)]), f),
          exc |-> FALSE]

\* the loops of import_content_blocks, import_issues and import_nodes:
\* write_text, then convert_file when another format is asked for
RECURSIVE WriteFiles(_, _)
WriteFiles(entries, files) ==
    IF entries = <<>> THEN [files |-> files, exc |-> FALSE]
    ELSE LET put == Put(files, Head(entries))
             converted == convert_file(put, Head(entries))
         IN  IF format = "textile" THEN WriteFiles(Tail(entries), put)
             ELSE IF converted.exc THEN [files |-> put, exc |-> TRUE]
             ELSE WriteFiles(Tail(entries), converted.files)

\* node["evidence"]: the evidence records of the node, by id
RECURSIVE ById(_)
ById(records) ==
    IF records = {} THEN <<>>
    ELSE LET first == CHOOSE e \in records : \A o \in records : e.id <= o.id
         IN  <<first>> \o ById(records \ {first})

\* evidence["issue"]["title"]
IssueTitle(evidence) ==
    rIssues[CHOOSE i \in 1..Len(rIssues) : rIssues[i].id = evidence.issue].title

\* the evidence files of import_nodes for one node
EvidenceFiles(node) ==
    LET evidence == ById({e \in rEvidence : e.node = ToStr(node.id)})
    IN  [index \in 1..Len(evidence) |->
            File("evidence",
                 <<clean_filename(node.label), clean_filename(IssueTitle(evidence[index]))>>,
                 <<"Evidence-">> \o ToStr(index) \o <<"-">>
                    \o clean_filename(IssueTitle(evidence[index])),
                 ".textile", evidence[index].id)]

RECURSIVE NodesFiles(_)
NodesFiles(nodes) ==
    IF nodes = <<>> THEN <<>> ELSE EvidenceFiles(Head(nodes)) \o NodesFiles(Tail(nodes))

ImportRemote ==
    \E bt \in SeqsUpTo({TA, TA3, TB}, MaxRemote), it \in SeqsUpTo({TA, TA3, TB}, MaxRemote),
       nodes \in {<<>>, <<[id |-> 20, label |-> N1]>>,
                  <<[id |-> 20, label |-> N1], [id |-> 22, label |-> UploadedFiles]>>} :
      \E k \in 0..(IF it = <<>> \/ nodes = <<>> THEN 0 ELSE MaxRemote) :
        /\ rBlocks = Listed(bt, 10)
        /\ rIssues = Listed(it, 0)
        /\ rNodes = nodes
        /\ rEvidence = {[id |-> 30 + j, node |-> <<"2", "0">>, issue |-> 1] : j \in 1..k}
        /\ rAttach = {}
        /\ nextId = 40

InitImport ==
    /\ ImportRemote
    /\ format \in {"textile", "markdown"}
    /\ unconvertible \in {{}} \cup
          (IF format = "textile" THEN {}
           ELSE {{e} : e \in {rBlocks[i].id : i \in 1..Len(rBlocks)}
                            \cup {rIssues[i].id : i \in 1..Len(rIssues)}
                            \cup {e.id : e \in rEvidence}})
    /\ written = {}
    /\ haIn = None /\ haOut = None /\ fnIn = None /\ fnOut = None
    /\ cbFiles = <<>> /\ issueFiles = <<>> /\ evFiles = <<>> /\ disk = {} /\ props = NoProps
    /\ InitSession

Imported ==
    UNCHANGED <<remote, tree, haIn, haOut, fnIn, fnOut, format, unconvertible, queue,
                faults, sessions>>

import_project ==
    /\ pc = "idle"
    /\ \E found \in BOOLEAN :
          /\ calls' = Append(calls, get_project(found))
          /\ pc' = IF found THEN "import_content_blocks" ELSE "not_found"
    /\ cur' = Step("import_project", 0, <<>>, <<>>)
    /\ Imported /\ UNCHANGED <<written, issue_list, dradis_nodes>>

import_content_blocks ==
    /\ pc = "import_content_blocks"
    /\ cur' = Step("import_content_blocks", 0, <<>>, rBlocks)
    /\ calls' = Append(calls, ApiCall("get_all_contentblocks", <<>>, <<>>, <<>>, "ok", 0))
    /\ LET out == WriteFiles([i \in 1..Len(rBlocks) |->
                                File("content_block", <<>>, clean_filename(rBlocks[i].title),
                                     ".textile", rBlocks[i].id)], written)
       IN  /\ written' = out.files
           /\ pc' = IF out.exc THEN "crashed" ELSE "import_document_properties"
    /\ Imported /\ UNCHANGED <<issue_list, dradis_nodes>>

import_document_properties ==
    /\ pc = "import_document_properties"
    /\ cur' = Step("import_document_properties", 0, <<>>, <<>>)
    /\ calls' = Append(calls, ApiCall("get_all_docprops", <<>>, <<>>, <<>>, "ok", 0))
    /\ written' = Put(written, File("document_properties", <<>>, <<"document_properties">>,
                                    ".ini", 0))
    /\ pc' = "import_issues"
    /\ Imported /\ UNCHANGED <<issue_list, dradis_nodes>>

import_issues ==
    /\ pc = "import_issues"
    /\ cur' = Step("import_issues", 0, <<>>, rIssues)
    /\ LET fetch == issue_list = <<>>
           issues == IF fetch THEN rIssues ELSE issue_list
           out == WriteFiles([i \in 1..Len(issues) |->
                                File("issue", <<>>, clean_filename(issues[i].title),
                                     ".textile", issues[i].id)], written)
       IN  /\ issue_list' = issues
           /\ calls' = IF fetch
                       THEN Append(calls, ApiCall("get_all_issues", <<>>, <<>>, <<>>, "ok", 0))
                       ELSE calls
           /\ written' = out.files
           /\ pc' = IF out.exc THEN "crashed" ELSE "import_nodes"
    /\ Imported /\ UNCHANGED dradis_nodes

import_nodes ==
    /\ pc = "import_nodes"
    /\ cur' = Step("import_nodes", 0, <<>>, rNodes)
    /\ LET fetch == dradis_nodes = <<>>
           nodes == IF fetch THEN rNodes ELSE dradis_nodes
           out == WriteFiles(NodesFiles(nodes), written)
       IN  /\ dradis_nodes' = nodes
           /\ calls' = IF fetch
                       THEN Append(calls, ApiCall("get_all_nodes", <<>>, <<>>, <<>>, "ok", 0))
                       ELSE calls
           /\ written' = out.files
           /\ pc' = IF out.exc THEN "crashed" ELSE "done"
    /\ Imported /\ UNCHANGED issue_list

NextImport ==
    \/ import_project
    \/ import_content_blocks
    \/ import_document_properties
    \/ import_issues
    \/ import_nodes

SpecImport == InitImport /\ [][NextImport]_vars

-----------------------------------------------------------------------------
(* import_project, then update_project on the folder it wrote *)

Files(cat) == {f \in written : f.cat = cat}

\* the files of a folder, in the order of the entities they were written for
RECURSIVE ByFrom(_)
ByFrom(files) ==
    IF files = {} THEN <<>>
    ELSE LET first == CHOOSE f \in files : \A g \in files : f.from <= g.from
         IN  <<first>> \o ByFrom(files \ {first})

TitleOf(list, id) == list[CHOOSE i \in 1..Len(list) : list[i].id = id].title

\* block["content"], issue["text"]: the Title field is the title the remote shows
ImportedTitled(cat, list) ==
    LET files == ByFrom(Files(cat))
    IN  [n \in 1..Len(files) |-> [lines |-> TitledDoc(TitleOf(list, files[n].from))]]

\* evidence["content"]: the content the last create or update sent, which holds
\* the EvidenceID block when the tool sent it with an update
ImportedEvidence(withId) ==
    LET files == ByFrom(Files("evidence"))
    IN  [n \in 1..Len(files) |->
            [label |-> files[n].dir[1], issue |-> files[n].dir[2],
             lines |-> IF withId
                       THEN <<Text(<<"x">>)>> \o EvidenceIdBlock(ToStr(files[n].from))
                       ELSE <<Text(<<"x">>)>>]]

\* the tool is started again, to export the folder import_project wrote:
\* a new DradisMD object, the files of the folder as the local tree
export_imported ==
    /\ pc = "done" /\ cur.op = "import_nodes" /\ sessions = 1
    /\ format = "textile"
    /\ sessions' = sessions + 1
    /\ cbFiles' = ImportedTitled("content_block", rBlocks)
    /\ issueFiles' = ImportedTitled("issue", rIssues)
    /\ \E withId \in BOOLEAN : evFiles' = ImportedEvidence(withId)
    /\ \E keys \in {<<>>, <<"k1">>} : props' = [file |-> TRUE, keys |-> keys]
    /\ disk' = {}
    /\ issue_list' = <<>>
    /\ dradis_nodes' = <<>>
    /\ queue' = <<>>
    /\ pc' = "idle"
    /\ calls' = <<>>
    /\ cur' = NoStep
    /\ faults' = 0
    /\ UNCHANGED <<remote, solo>>

MaxTrip == 1        \* remote content blocks of the project imported and exported

InitRoundTrip ==
    /\ InitImport
    /\ format = "textile"
    /\ Len(rBlocks) <= MaxTrip

NextRoundTrip ==
    \/ (sessions = 1 /\ NextImport)
    \/ export_imported
    \/ (sessions = 2 /\ Next)

SpecRoundTrip == InitRoundTrip /\ [][NextRoundTrip]_vars

-----------------------------------------------------------------------------
(* The functions of the module called on their own, on arguments drawn from
   small sets *)

MaxStr == 3         \* characters of a string handed to clean_filename

Alphabet == {"a", "B", "[", "]", ":", ".", "/"}

Call(fn, arg) == [fn |-> fn, arg |-> arg]

CleanCalls == {Call("clean_filename", x) : x \in SeqsUpTo(Alphabet, MaxStr)}

MaxLines == 3       \* lines of a document handed to get_title

FieldLines == {Marker("Title"), Marker("EvidenceID"), Marker("Other"), Blank,
               Text(<<"x">>)}

FieldCalls ==
    {Call(fn, content) : fn \in {"get_title", "evidence_id"},
                         content \in SeqsUpTo(FieldLines, MaxLines)}

\* get_node_id_from_file looking the issue folder up instead of the node folder
get_node_id_from_path_parent(file_path) ==
    LET fetched == get_node_id_from_file("evidence", <<>>)
        found == IF UpName(file_path, 1) = ContentBlocksDir
                 THEN get_node_id_from_file("content_block", <<>>)
                 ELSE get_node_id_from_file("evidence", UpName(file_path, 1))
        positioned == \/ UpName(file_path, 1) = ContentBlocksDir
                      \/ UpName(file_path, 2) = EvidencesDir
    IN  [exc |-> positioned /\ found.exc,
         val |-> IF positioned THEN found.val ELSE <<>>,
         none |-> ~positioned,
         reported |-> ~positioned,
         nodes |-> fetched.nodes,
         calls |-> fetched.calls]

\* get_node_id_from_file(project_id, file_path) from the path: none is the
\* return of None, reported the log.error before it
get_node_id_from_path(file_path) ==
    LET fetched == get_node_id_from_file("evidence", <<>>)
        found == IF UpName(file_path, 1) = ContentBlocksDir
                 THEN get_node_id_from_file("content_block", <<>>)
                 ELSE get_node_id_from_file("evidence", UpName(file_path, 3))
        positioned == \/ UpName(file_path, 1) = ContentBlocksDir
                      \/ UpName(file_path, 2) = EvidencesDir
    IN  [exc |-> positioned /\ found.exc,
         val |-> IF positioned THEN found.val ELSE <<>>,
         none |-> ~positioned,
         reported |-> ~positioned,
         nodes |-> fetched.nodes,
         calls |-> fetched.calls]

N1b == <<"n", "1", ".">>     \* matches N1 once sanitized and lower-cased

NodePaths ==
    {<<ContentBlocksDir, FileName>>, <<IssuesDir, FileName>>, <<NodesDir, N1, FileName>>}
    \cup {<<NodesDir, label, EvidencesDir, issue, FileName>> :
              label \in {N1, N1b, TB}, issue \in {TA, N1}}

NodeCalls == {Call("get_node_id_from_file", path) : path \in NodePaths}

MaxPath == 3        \* names of a path handed to update_item

PathNames == {PropertiesIni, ContentBlocksDir, IssuesDir, EvidencesDir, FileName}

ItemCalls ==
    {Call("update_item", path) : path \in SeqsUpTo(PathNames, MaxPath) \ {<<>>}}

MaxList == 2        \* entries of a list handed to get_item_from_dict_list

TS == <<"s", "t", ".">>     \* a title the sanitizer shortens
TSz == <<"sz">>             \* the one-letter title sharp s

LookupTitles == {TA, TA2, TB, TS, TSz}

LookupCalls ==
    {Call("get_item_from_dict_list", [dict_list |-> Listed(titles, 0), matching_string |-> x]) :
        titles \in SeqsUpTo(LookupTitles, MaxList),
        x \in LookupTitles \cup {upper(t) : t \in LookupTitles}}

InitCalls ==
    /\ fnIn \in CleanCalls \cup FieldCalls \cup ItemCalls \cup NodeCalls \cup LookupCalls
    /\ fnOut = None
    /\ format = "textile" /\ written = {} /\ unconvertible = {}
    /\ haIn = None /\ haOut = None
    /\ cbFiles = <<>> /\ issueFiles = <<>> /\ evFiles = <<>> /\ disk = {} /\ props = NoProps
    /\ InitRemote
    /\ InitSession

\* a function that touches neither the remote nor the files has returned
Returned == UNCHANGED <<remote, tree, haIn, haOut, fnIn, format, written, unconvertible,
                        issue_list, queue, pc, calls, cur, faults, sessions>>

clean_filename_call ==
    /\ fnOut = None /\ fnIn.fn = "clean_filename"
    /\ fnOut' = Return(clean_filename(fnIn.arg))
    /\ Returned /\ UNCHANGED dradis_nodes

get_title_call ==
    /\ fnOut = None /\ fnIn.fn = "get_title"
    /\ fnOut' = get_title(fnIn.arg)
    /\ Returned /\ UNCHANGED dradis_nodes

\* export_evidence's reading of the id: re.search(EVIDENCE_ID_REGEX, content),
\* then group(1) when there is a match
evidence_id_call ==
    /\ fnOut = None /\ fnIn.fn = "evidence_id"
    /\ fnOut' = LET evidence_id_found == re_search("EvidenceID", fnIn.arg)
                IN  IF evidence_id_found = None
                    THEN [exc |-> FALSE, found |-> FALSE, val |-> <<>>]
                    ELSE [exc |-> FALSE, found |-> TRUE, val |-> evidence_id_found.group1]
    /\ Returned /\ UNCHANGED dradis_nodes

update_item_call ==
    /\ fnOut = None /\ fnIn.fn = "update_item"
    /\ fnOut' = Return(update_item(fnIn.arg))
    /\ Returned /\ UNCHANGED dradis_nodes

get_node_id_from_file_call ==
    /\ fnOut = None /\ fnIn.fn = "get_node_id_from_file"
    /\ LET node == get_node_id_from_path(fnIn.arg)
       IN  /\ fnOut' = [exc |-> node.exc, val |-> node.val, none |-> node.none,
                        reported |-> node.reported]
           /\ dradis_nodes' = node.nodes
           /\ calls' = calls \o node.calls
    /\ UNCHANGED <<remote, tree, haIn, haOut, fnIn, format, written, unconvertible,
                   issue_list, queue, pc, cur, faults, sessions>>

\* get_item_from_dict_list(dict_list, "title", matching_string): val holds the
\* entry returned, nothing when None was returned
get_item_from_dict_list_call ==
    /\ fnOut = None /\ fnIn.fn = "get_item_from_dict_list"
    /\ fnOut' = LET match == get_item_from_dict_list(fnIn.arg.dict_list, "title",
                                                     fnIn.arg.matching_string)
                IN  [exc |-> FALSE, found |-> match # None,
                     val |-> IF match = None THEN <<>> ELSE <<match>>]
    /\ Returned /\ UNCHANGED dradis_nodes

NextCalls ==
    \/ clean_filename_call
    \/ get_item_from_dict_list_call
    \/ get_node_id_from_file_call
    \/ update_item_call
    \/ get_title_call
    \/ evidence_id_call

SpecCalls == InitCalls /\ [][NextCalls]_vars

-----------------------------------------------------------------------------
(* add_issue: a new issue file and, for a node, a new evidence file *)

MaxEvidence == 11   \* the highest number an evidence file of the folder ends with

EvidenceStem == <<"Evidence">>

\* the evidence files the folder can hold: Evidence, Evidence1 .. Evidence11
EvidenceNames == {EvidenceStem} \cup {EvidenceStem \o ToStr(n) : n \in 1..MaxEvidence}

IsDigit(ch) == \E d \in 1..10 : Digits[d] = ch

DigitValue(ch) == (CHOOSE d \in 1..10 : Digits[d] = ch) - 1

\* the loop trying Evidence2 whatever the name it has
next_evidence_file_second(stem) == EvidenceStem \o <<"2">>

\* the body of the while loop: the stem of the next file tried
next_evidence_file(stem) ==
    IF IsDigit(Last(stem))
    THEN SubSeq(stem, 1, Len(stem) - 1) \o ToStr(DigitValue(Last(stem)) + 1)
    ELSE EvidenceStem \o <<"2">>

\* the evidence file of this name in Nodes/<node>/Evidences/<issue>/
EvidenceFile(node_name, issue_title, stem, from) ==
    File("evidence", <<node_name, issue_title>>, stem, Extension(format), from)

\* the files that were there are written for entity 0, the new ones for 1
InitAddIssue ==
    /\ fnIn \in {Call("add_issue", [node_name |-> n, issue_title |-> TA, templates |-> t,
                                     existing |-> e]) :
                    n \in {<<>>, N1}, t \in {"both", "no_evidence", "no_issue"},
                    e \in SUBSET EvidenceNames}
    /\ fnOut = None
    /\ format = "textile"
    /\ \E issue \in SUBSET {File("issue", <<>>, TA, Extension(format), 0)} :
          written = issue \cup {EvidenceFile(N1, TA, stem, 0) : stem \in fnIn.arg.existing}
    /\ unconvertible = {}
    /\ haIn = None /\ haOut = None
    /\ cbFiles = <<>> /\ issueFiles = <<>> /\ evFiles = <<>> /\ disk = {} /\ props = NoProps
    /\ rIssues = <<>> /\ rBlocks = <<>> /\ rNodes = <<>>
    /\ rEvidence = {} /\ rAttach = {} /\ nextId = 1
    /\ InitSession

Added == UNCHANGED <<remote, tree, haIn, haOut, fnIn, format, unconvertible, issue_list,
                     dradis_nodes, queue, calls, faults, sessions>>

\* add_issue(project_path, node_name, issue_title) up to its while loop
add_issue ==
    /\ pc = "idle" /\ fnIn.fn = "add_issue"
    /\ cur' = Step("add_issue", 0, <<>>, <<>>)
    /\ IF fnIn.arg.templates = "no_evidence"
       THEN pc' = "done" /\ UNCHANGED <<written, fnOut>>      \* log.error
       ELSE IF fnIn.arg.templates = "no_issue"
       THEN pc' = "crashed" /\ UNCHANGED <<written, fnOut>>   \* issue_content is unbound
       ELSE /\ written' = Put(written, File("issue", <<>>, fnIn.arg.issue_title,
                                            Extension(format), 1))
            /\ IF fnIn.arg.node_name = <<>>
               THEN pc' = "done" /\ UNCHANGED fnOut
               ELSE pc' = "add_issue_loop" /\ fnOut' = Return(EvidenceStem)
    /\ Added

\* while evidence_file.is_file(): one turn of the loop
add_issue_loop ==
    /\ pc = "add_issue_loop"
    /\ \E f \in written : SamePath(f, EvidenceFile(fnIn.arg.node_name,
                                                  fnIn.arg.issue_title, fnOut.val, 1))
    /\ fnOut' = Return(next_evidence_file(fnOut.val))
    /\ cur' = Step("add_issue_loop", 0, <<>>, <<>>)
    /\ UNCHANGED <<pc, written>>
    /\ Added

\* evidence_file.write_text(evidence_content) after the loop
add_issue_write ==
    /\ pc = "add_issue_loop"
    /\ ~\E f \in written : SamePath(f, EvidenceFile(fnIn.arg.node_name,
                                                   fnIn.arg.issue_title, fnOut.val, 1))
    /\ written' = Put(written, EvidenceFile(fnIn.arg.node_name, fnIn.arg.issue_title,
                                            fnOut.val, 1))
    /\ pc' = "done"
    /\ cur' = Step("add_issue_write", 0, <<>>, <<>>)
    /\ UNCHANGED fnOut
    /\ Added

NextAddIssue ==
    \/ add_issue
    \/ add_issue_loop
    \/ add_issue_write

\* the process runs until add_issue returns
SpecAddIssue == InitAddIssue /\ [][NextAddIssue]_vars /\ WF_vars(NextAddIssue)

-----------------------------------------------------------------------------
(* What the claims speak of *)

SameKey(a, b) == lower(clean_filename(a)) = lower(clean_filename(b))

\* the entries of a remote list whose title matches t
Matching(list, t) == {i \in 1..Len(list) : SameKey(list[i].title, t)}

Unique(list) ==
    \A i, j \in 1..Len(list) : i # j => ~SameKey(list[i].title, list[j].title)

CallsOf(cs, ops) == SelectSeq(cs, LAMBDA c : c.op \in ops)

HasTitle(content) == ~get_title(content).exc /\ get_title(content).val # <<>>

\* every value an #[EvidenceID]# marker of the document is followed by
RECURSIVE EvidenceIdFields(_)
EvidenceIdFields(content) ==
    LET m == re_search("EvidenceID", content)
    IN  IF m = None THEN <<>>
        ELSE <<m.group1>> \o EvidenceIdFields(SubSeq(content, m.end + 1, Len(content)))

EvidenceStep == cur.op \in {"export_evidence", "update_item_evidence"}

EvidenceWrites == CallsOf(StepCalls, {"create_evidence", "update_evidence"})

\* C1: an evidence file without EvidenceID whose issue folder matches a remote
\* issue is exported with exactly one create_evidence and no update, and then
\* carries the id that create returned; a file that carries an id is exported
\* with update_evidence on that id, and with no create when the update is accepted.
C1_CreateThenUpdate ==
    (/\ EvidenceStep /\ cur.lines # <<>>
     /\ Matching(rIssues, evFiles[cur.idx].issue) # {})
    => IF re_search("EvidenceID", cur.lines) = None
       THEN /\ Len(EvidenceWrites) = 1
            /\ EvidenceWrites[1].op = "create_evidence"
            /\ EvidenceWrites[1].res = "ok" =>
                 EvidenceIdFields(evFiles[cur.idx].lines) = <<ToStr(EvidenceWrites[1].ret)>>
       ELSE /\ EvidenceWrites # <<>>
            /\ EvidenceWrites[1].op = "update_evidence"
            /\ EvidenceWrites[1].id = re_search("EvidenceID", cur.lines).group1
            /\ EvidenceWrites[1].res = "ok" => Len(EvidenceWrites) = 1

\* C2: when the remote rejects update_evidence, by raising or by a not-found
\* response, exactly one create_evidence follows and the file then holds the
\* new id in its only EvidenceID field.
C2_RejectedUpdateCreates ==
    (/\ EvidenceStep /\ EvidenceWrites # <<>>
     /\ EvidenceWrites[1].op = "update_evidence"
     /\ EvidenceWrites[1].res # "ok")
    => /\ Len(EvidenceWrites) = 2
       /\ EvidenceWrites[2].op = "create_evidence"
       /\ EvidenceWrites[2].res = "ok" =>
            EvidenceIdFields(evFiles[cur.idx].lines) = <<ToStr(EvidenceWrites[2].ret)>>

TitleStep == cur.op \in {"export_content_block", "export_issue"}

TitleWrites ==
    CallsOf(StepCalls, {"create_contentblock", "update_contentblock",
                        "create_issue", "update_issue"})

\* C3: a content-block or issue file without a Title value is skipped: no
\* create or update is issued for it and the export goes on.
C3_NoTitleSkipped ==
    (TitleStep /\ cur.lines # <<>> /\ ~HasTitle(cur.lines))
    => pc # "crashed" /\ TitleWrites = <<>>

\* an export call of the queue that would issue a create or an update
Exportable(item) ==
    \/ item.kind = "content_block" /\ HasTitle(cbFiles[item.idx].lines)
    \/ item.kind = "issue" /\ HasTitle(issueFiles[item.idx].lines)

\* C4: a remote create or update that fails for one file never aborts the
\* batch: no exportable file is left unexported because of it.
C4_BatchGoesOn ==
    (pc = "crashed" /\ calls # <<>> /\ Last(calls).res = "raise")
    => \A n \in 1..Len(queue) : ~Exportable(queue[n])

\* C5: the export of an issue file with title T issues exactly one write:
\* create_issue when no issue of the session's list matches T, otherwise
\* update_issue on the id of the first match.
C5_IssueOneWrite ==
    (cur.op = "export_issue" /\ HasTitle(cur.lines))
    => LET m == Matching(issue_list, get_title(cur.lines).val)
       IN  /\ Len(TitleWrites) = 1
           /\ IF m = {} THEN TitleWrites[1].op = "create_issue"
              ELSE /\ TitleWrites[1].op = "update_issue"
                   /\ TitleWrites[1].id = ToStr(issue_list[Min(m)].id)

\* an issue file titled "A:" was exported as an update of the remote issue "a"
C5_Witness ==
    /\ cur.op = "export_issue"
    /\ HasTitle(cur.lines) /\ get_title(cur.lines).val = TA2
    /\ TitleWrites = <<ApiCall("update_issue", <<>>, <<"1">>, <<>>, "ok", 0)>>

\* C6: the export of a content-block file with title T issues exactly one
\* write: create_contentblock when no remote block matches T when the export
\* starts, otherwise update_contentblock on the id of the first match.
C6_BlockOneWrite ==
    (cur.op = "export_content_block" /\ HasTitle(cur.lines))
    => LET m == Matching(cur.seen, get_title(cur.lines).val)
       IN  /\ Len(TitleWrites) = 1
           /\ IF m = {} THEN TitleWrites[1].op = "create_contentblock"
              ELSE /\ TitleWrites[1].op = "update_contentblock"
                   /\ TitleWrites[1].id = ToStr(cur.seen[Min(m)].id)

\* C7: no two remote issues and no two remote content blocks have matching
\* titles (every project the model starts from has unique titles).
C7_TitlesUnique == Unique(rIssues) /\ Unique(rBlocks)

\* C10: once an evidence export was asked for, a remote node matches the node
\* folder (created if there was none) and the export did not stop; no evidence
\* or attachment call of an evidence export names a node the remote lacks.
C10_NodeResolvedFirst ==
    /\ (cur.op \in {"export_node", "update_item_evidence"} /\ faults = 0)
       => /\ pc # "crashed"
          /\ \E n \in 1..Len(rNodes) : SameKey(rNodes[n].label, evFiles[cur.idx].label)
    /\ EvidenceStep =>
         \A k \in 1..Len(StepCalls) :
            StepCalls[k].op \in {"create_evidence", "update_evidence",
                                 "get_all_attachments", "create_attachment"}
            => \E n \in 1..Len(rNodes) : ToStr(rNodes[n].id) = StepCalls[k].node

\* C12: for a file of Content Blocks/ the node id is the id of the remote node
\* labelled "Uploaded files" minus 1: the attachment listing and the upload of
\* the content block are made on that node and the references of the content
\* sent read /pro/projects/{project}/nodes/{that id}/attachments/{filename}.
C12_BlockNode ==
    (/\ cur.op = "export_content_block" /\ HasTitle(cur.lines)
     /\ Matching([n \in 1..Len(rNodes) |-> [title |-> rNodes[n].label]],
                 UploadedFiles) # {})
    => LET uploaded_files ==
               rNodes[Min(Matching([n \in 1..Len(rNodes) |-> [title |-> rNodes[n].label]],
                                   UploadedFiles))]
           node_id == ToStr(uploaded_files.id - 1)
       IN  /\ CallsOf(StepCalls, {"get_all_attachments"}) # <<>>
           /\ TitleWrites # <<>>
           /\ \A k \in 1..Len(StepCalls) :
                /\ StepCalls[k].op \in {"get_all_attachments", "create_attachment"}
                   => StepCalls[k].node = node_id
                /\ StepCalls[k].op \in {"create_contentblock", "update_contentblock"}
                   => \A i \in 1..Len(cur.lines) :
                        cur.lines[i].k = "att"
                        => StepCalls[k].content[i]
                             = Att(<<"/pro/projects/", "1", "/nodes/">> \o node_id
                                   \o <<"/attachments/">>, cur.lines[i].v, cur.lines[i].c)

\* "Uploaded files" has id 6: img/p was uploaded to node 5 and the block sent
\* with the reference rewritten to node 5
C12_Witness ==
    /\ cur.op = "export_content_block" /\ cur.lines = ImageDoc
    /\ \E k \in 1..Len(StepCalls) :
          /\ StepCalls[k].op = "create_attachment"
          /\ StepCalls[k].node = <<"5">>
    /\ Last(StepCalls).op = "create_contentblock"
    /\ Last(StepCalls).content[4] = Att(DradisDir(<<"5">>), PName, <<>>)

\* C14: in one session the issue list is fetched from the remote at most once
\* and so is the node list, whatever the lists hold and however many files
\* are exported.
C14_FetchedOnce ==
    /\ Len(CallsOf(calls, {"get_all_issues"})) <= 1
    /\ Len(CallsOf(calls, {"get_all_nodes"})) <= 1

\* C15: the export of the properties file issues one update_docprop per key
\* of the file, in the file's order, and no other call; an update that fails
\* does not keep the later keys from being updated, nor the export from going on.
C15_EveryKeyUpdated ==
    cur.op = "export_document_properties"
    => /\ pc # "crashed"
       /\ Len(StepCalls) = Len(props.keys)
       /\ \A i \in 1..Len(StepCalls) :
            StepCalls[i].op = "update_docprop" /\ StepCalls[i].id = <<props.keys[i]>>

\* the update of the first of two keys raised and the second key was updated
C15_Witness ==
    /\ cur.op = "export_document_properties"
    /\ props.keys = <<"k1", "k2">>
    /\ Len(StepCalls) = 2
    /\ StepCalls[1].res = "raise" /\ StepCalls[1].id = <<"k1">>
    /\ StepCalls[2].res = "ok" /\ StepCalls[2].id = <<"k2">>

\* the issue files of the tree whose title is the issue folder of evidence file i
IssueFilesOf(i) ==
    {j \in 1..Len(issueFiles) :
        /\ HasTitle(issueFiles[j].lines)
        /\ get_title(issueFiles[j].lines).val = evFiles[i].issue}

\* C22: in a directory export of a tree with an issue file titled T and an
\* evidence file under Evidences/T/, no remote call having failed, the export
\* of the evidence file issues a create or an update of evidence, whether
\* issue T was on the remote before the run or was created by it.
C22_EvidenceOfNewIssue ==
    (/\ cur.op = "export_evidence" /\ cur.lines # <<>>
     /\ IssueFilesOf(cur.idx) # {}
     /\ faults = 0)
    => EvidenceWrites # <<>>

\* the #[EvidenceID]# marker lines of a document
EvidenceIdMarkers(content) ==
    {i \in 1..Len(content) : content[i] = Marker("EvidenceID")}

CreatedEvidence == SelectSeq(StepCalls, LAMBDA c : c.op = "create_evidence" /\ c.res = "ok")

\* C24: over any number of exports, an evidence file that started with at most
\* one #[EvidenceID]# marker holds at most one; after an export that created
\* an evidence its only id field holds the id that create returned, and an
\* export that created none leaves the id field as it was.
C24_SingleEvidenceId ==
    /\ \A n \in 1..Len(evFiles) : Cardinality(EvidenceIdMarkers(evFiles[n].lines)) <= 1
    /\ EvidenceStep
       => IF CreatedEvidence # <<>>
          THEN EvidenceIdFields(evFiles[cur.idx].lines) = <<ToStr(Last(CreatedEvidence).ret)>>
          ELSE EvidenceIdFields(evFiles[cur.idx].lines) = EvidenceIdFields(cur.lines)

\* C25: an export whose create_evidence failed or was answered without an id
\* leaves the evidence file as it was, and no update_evidence is ever
\* attempted with the placeholder None as id.
C25_IdOnlyFromCreate ==
    /\ (EvidenceStep /\ CreatedEvidence = <<>>) => evFiles[cur.idx].lines = cur.lines
    /\ \A k \in 1..Len(calls) : calls[k].op = "update_evidence" => calls[k].id # NoneStr

NonBlank(content) == SelectSeq(content, LAMBDA l : l.k # "blank")

\* the document without its EvidenceID fields: the marker lines that have a
\* value, and their value lines
WithoutIdField(content) ==
    LET valued == {i \in EvidenceIdMarkers(content) : Follower(content, i) # 0}
    IN  Without(content, valued \cup {Follower(content, i) : i \in valued})

\* the evidence the step from calls to calls' created, <<>> when it created none
NewlyCreated(before, after) ==
    SelectSeq(SubSeq(after, Len(before) + 1, Len(after)),
              LAMBDA c : c.op = "create_evidence" /\ c.res = "ok")

\* C26: no step of an export changes a content-block file, an issue file, the
\* properties file or an attachment on disk; an evidence file changes only in
\* the export of that file that created an evidence, and then reads as it did,
\* less its stale id field, followed by the EvidenceID block of the new id
\* (attachment references as they were).
C26_OnlyEvidenceIdWritten ==
    [][/\ cbFiles' = cbFiles /\ issueFiles' = issueFiles
       /\ props' = props /\ disk' = disk
       /\ Len(evFiles') = Len(evFiles)
       /\ \A n \in 1..Len(evFiles) :
            evFiles'[n] # evFiles[n]
            => /\ cur'.op \in {"export_evidence", "update_item_evidence"}
               /\ cur'.idx = n
               /\ NewlyCreated(calls, calls') # <<>>
               /\ evFiles'[n].label = evFiles[n].label
               /\ evFiles'[n].issue = evFiles[n].issue
               /\ LET id == ToStr(NewlyCreated(calls, calls')[1].ret)
                      was == evFiles[n].lines
                  IN  IF EvidenceIdFields(was) = <<>>
                      THEN evFiles'[n].lines = was \o EvidenceIdBlock(id)
                      ELSE NonBlank(evFiles'[n].lines)
                             = NonBlank(WithoutIdField(was))
                               \o <<Marker("EvidenceID"), Text(id)>>]_vars

\* C27: an evidence file whose issue folder matches no issue of the session's
\* list is skipped: once its node is resolved, its export lists and uploads no
\* attachment, creates and updates no evidence and leaves the file as it was.
C27_UnknownIssueSkipped ==
    (/\ EvidenceStep /\ cur.lines # <<>> /\ pc # "crashed"
     /\ Matching(issue_list, evFiles[cur.idx].issue) = {})
    => /\ CallsOf(StepCalls, {"get_all_attachments", "create_attachment",
                              "create_evidence", "update_evidence"}) = <<>>
       /\ evFiles[cur.idx].lines = cur.lines

\* the evidence file of issue folder "a" was skipped in a session whose issue
\* list holds issue "b" only
C27_Witness ==
    /\ cur.op = "export_evidence" /\ cur.lines # <<>> /\ pc = "running"
    /\ issue_list = <<[id |-> 1, title |-> TB]>>
    /\ evFiles[cur.idx].issue = TA
    /\ StepCalls = <<ApiCall("get_all_issues", <<>>, <<>>, <<>>, "ok", 0)>>
    /\ evFiles[cur.idx].lines = cur.lines

-----------------------------------------------------------------------------
(* What the claims say of handle_attachments *)

Present(l) == Decode(l.v) \in haIn.existing
OnDisk(l) == [d |-> l.d, v |-> Decode(l.v)] \in haIn.disk

\* C8: the files uploaded are exactly the referenced files that are not listed
\* remotely and exist on disk, each of them once, in at most one upload call,
\* and no upload call is made when there is none.
C8_UploadedOnce ==
    haOut # None
    => LET due == {[d |-> l.d, v |-> Decode(l.v)] :
                      l \in {haIn.content[i] : i \in {j \in 1..Len(haIn.content) :
                                ~Present(haIn.content[j]) /\ OnDisk(haIn.content[j])}}}
           uploads == CallsOf(haOut.calls, {"create_attachment"})
       IN  /\ {haOut.files[i] : i \in 1..Len(haOut.files)} = due
           /\ \A i, j \in 1..Len(haOut.files) : i # j => haOut.files[i] # haOut.files[j]
           /\ IF due = {} THEN uploads = <<>>
              ELSE Len(uploads) = 1 /\ uploads[1].files = haOut.files

\* C9: every reference that is present remotely or was queued for upload reads
\* /pro/projects/{project}/nodes/{node}/attachments/{filename}{caption} in the
\* content returned; a reference whose file is neither remote nor on disk is as
\* it was, and so is every other line.
C9_Rewritten ==
    haOut # None
    => /\ Len(haOut.content) = Len(haIn.content)
       /\ \A i \in 1..Len(haIn.content) :
            LET l == haIn.content[i]
            IN  IF l.k = "att" /\ (Present(l) \/ OnDisk(l))
                THEN haOut.content[i] = Att(DradisDir(haIn.node_id), l.v, l.c)
                ELSE haOut.content[i] = l

\* a missing file's reference stayed and a later captioned reference was rewritten
C9_Witness ==
    /\ haOut # None
    /\ Len(haIn.content) = 2
    /\ ~Present(haIn.content[1]) /\ ~OnDisk(haIn.content[1])
    /\ haOut.content[1] = haIn.content[1]
    /\ haIn.content[2].c = Caption /\ haIn.content[2].d = ImgDir
    /\ haOut.content[2] = Att(DradisDir(haIn.node_id), haIn.content[2].v, Caption)

-----------------------------------------------------------------------------
(* What the claims say of the functions called on their own *)

Done(fn) == fnOut # None /\ fnIn.fn = fn

\* the characters the specification names as illegal in a file name
NamedIllegal == {"<", ">", ":", "]", "\"", "/", "\\", "|", "?", "*", "."}

RECURSIVE Legal(_)
Legal(x) ==
    IF x = <<>> THEN <<>>
    ELSE (IF Head(x) \in NamedIllegal THEN <<>> ELSE <<Head(x)>>) \o Legal(Tail(x))

\* C20: clean_filename(x) holds none of < > : ] " / \ | ? * . , holds every
\* other character of x in the order of x, and cleaning it again changes nothing.
C20_CleanIdempotent ==
    Done("clean_filename")
    => /\ \A i \in 1..Len(fnOut.val) : fnOut.val[i] \notin NamedIllegal
       /\ fnOut.val = Legal(fnIn.arg)
       /\ clean_filename(fnOut.val) = fnOut.val

\* "]:[" with one illegal character twice was cleaned to "[": "[" is kept
C20_Witness ==
    /\ Done("clean_filename")
    /\ fnIn.arg = <<":", "[", ":">>
    /\ fnOut.val = <<"[">>

\* the first non-empty line after the first marker line of the field, <<>>
\* when there is no such marker, no such line, or the line is a marker
FieldValue(field, content) ==
    LET ms == {i \in 1..Len(content) : content[i] = Marker(field)}
        f == Follower(content, Min(ms))
    IN  IF ms = {} THEN <<>>
        ELSE IF f = 0 THEN <<>>
        ELSE IF content[f].k = "marker" THEN <<>>
        ELSE LineText(content[f])

\* C19: the extractor returns the first non-empty line after the field's
\* marker; it returns absent, and does not raise, when the content has no such
\* marker or when that line is another marker; so for Title, so for EvidenceID.
C19_FieldExtractor ==
    /\ Done("get_title")
       => ~fnOut.exc /\ fnOut.val = FieldValue("Title", fnIn.arg)
    /\ Done("evidence_id")
       => /\ ~fnOut.exc
          /\ fnOut.found <=> FieldValue("EvidenceID", fnIn.arg) # <<>>
          /\ fnOut.val = FieldValue("EvidenceID", fnIn.arg)

\* the exporters whose position the path is in
Positions(path) ==
    {e \in {"export_document_properties", "export_content_block", "export_issue",
            "export_evidence"} :
        \/ e = "export_document_properties" /\ path[Len(path)] = PropertiesIni
        \/ e = "export_content_block" /\ Len(path) > 1
                                      /\ path[Len(path) - 1] = ContentBlocksDir
        \/ e = "export_issue" /\ Len(path) > 1 /\ path[Len(path) - 1] = IssuesDir
        \/ e = "export_evidence" /\ Len(path) > 2 /\ path[Len(path) - 2] = EvidencesDir}

EvidencePath(path) == Len(path) = 5 /\ path[1] = NodesDir /\ path[3] = EvidencesDir

\* the remote nodes whose label matches
MatchingNodes(label) == {n \in 1..Len(rNodes) : SameKey(rNodes[n].label, label)}

\* C11: for a file at Nodes/<label>/Evidences/<issue>/<file> and a remote node
\* whose label matches <label>, sanitized and whatever the case, node
\* resolution returns the id of that node, not of one matching the Evidences
\* or the issue folder.
C11_EvidenceNode ==
    (/\ Done("get_node_id_from_file") /\ EvidencePath(fnIn.arg)
     /\ MatchingNodes(fnIn.arg[2]) # {})
    => /\ ~fnOut.exc /\ ~fnOut.none
       /\ fnOut.val = ToStr(rNodes[Min(MatchingNodes(fnIn.arg[2]))].id)

\* Nodes/n1./Evidences/N1/f resolved to node "N1" of the remote, id 4
C11_Witness ==
    /\ Done("get_node_id_from_file")
    /\ fnIn.arg = <<NodesDir, N1b, EvidencesDir, N1, FileName>>
    /\ rNodes # <<>> /\ rNodes[1] = [id |-> 4, label |-> N1]
    /\ fnOut.val = <<"4">> /\ ~fnOut.exc

\* C13: node resolution returns a node id or fails in a reported way; it never
\* raises, whatever the path and whatever nodes the remote has.
C13_ResolutionReported ==
    Done("get_node_id_from_file")
    => /\ ~fnOut.exc
       /\ fnOut.none => fnOut.reported
       /\ ~fnOut.none => fnOut.val # <<>>

\* C21: a lookup matches two names exactly when their sanitized forms are
\* equal ignoring case, never by raw equality, and returns the first entry of
\* the list that matches, or nothing when none does; in particular a name
\* looked up in upper case finds the entry of that name.
C21_SanitizedMatch ==
    Done("get_item_from_dict_list")
    => LET list == fnIn.arg.dict_list
           name == fnIn.arg.matching_string
       IN  /\ ~fnOut.exc
           /\ fnOut.found <=> Matching(list, name) # {}
           /\ fnOut.found => fnOut.val = <<list[Min(Matching(list, name))]>>
           /\ \A i \in 1..Len(list) : name = upper(list[i].title) => fnOut.found

-----------------------------------------------------------------------------
(* What the claims say of import_project *)

\* C16: after import_project every remote content block, issue and evidence
\* record has its own file: as many files as instances in each category, none
\* written over by another instance's.
C16_OneFilePerInstance ==
    pc = "done"
    => /\ Cardinality(Files("content_block")) = Len(rBlocks)
       /\ Cardinality(Files("issue")) = Len(rIssues)
       /\ Cardinality(Files("evidence")) = Cardinality(rEvidence)
       /\ \A i \in 1..Len(rBlocks) :
            \E f \in Files("content_block") : f.from = rBlocks[i].id
       /\ \A i \in 1..Len(rIssues) : \E f \in Files("issue") : f.from = rIssues[i].id
       /\ \A e \in rEvidence : \E f \in Files("evidence") : f.from = e.id

\* C23: the export of the folder an import wrote, nothing having been changed
\* and no remote call having failed, issues no create of an evidence, an issue
\* or a content block, and exports each evidence file as an update.
C23_RoundTripNoCreate ==
    (sessions = 2 /\ faults = 0)
    => /\ CallsOf(calls, {"create_evidence", "create_issue", "create_contentblock"}) = <<>>
       /\ (EvidenceStep /\ pc # "crashed")
          => CallsOf(StepCalls, {"update_evidence"}) # <<>>

\* C28: when the remote answers the project lookup with the not-found
\* sentinel, the operation ends there: update_project makes no other remote
\* call, so no create, update or upload, and import_project writes no file.
C28_NoProjectNoEffect ==
    (calls # <<>> /\ calls[1].op = "get_project" /\ calls[1].res = "sentinel")
    => /\ Len(calls) = 1
       /\ pc = "not_found"
       /\ queue = <<>>
       /\ cur.op = "import_project" => written = {}

\* the export of a folder that holds files, to a project the remote does not have
C28_Witness ==
    /\ cur.op = "update_project" /\ pc = "not_found"
    /\ Len(cbFiles) + Len(issueFiles) + Len(evFiles) > 1
    /\ calls = <<get_project(FALSE)>>

\* C29: add_issue with a node name comes to its end whatever evidence files
\* the folder holds; the evidence file it writes has a name no file of the
\* folder had, and every evidence file that was there is still as it was.
C29_UniqueEvidenceName ==
    /\ <>(pc \in {"done", "crashed"})
    /\ []((pc = "done" /\ cur.op = "add_issue_write")
          => /\ fnOut.val \notin fnIn.arg.existing
             /\ EvidenceFile(N1, TA, fnOut.val, 1) \in written
             /\ \A stem \in fnIn.arg.existing : EvidenceFile(N1, TA, stem, 0) \in written)

\* the folder held Evidence and Evidence2 to Evidence11: Evidence12 was written
C29_Witness ==
    /\ pc = "done" /\ cur.op = "add_issue_write"
    /\ fnIn.arg.existing = EvidenceNames \ {EvidenceStem \o <<"1">>}
    /\ fnOut.val = EvidenceStem \o <<"1", "2">>

\* C17: an import to another format goes to its end whatever content pandoc
\* rejects: the file of that content is left as the textile file it was
\* written as, and the import does not stop.
C17_ConversionFailureGoesOn ==
    format # "textile"
    => /\ pc # "crashed"
       /\ pc = "done" => \A f \in written : f.from \in unconvertible => f.ext = ".textile"

====
